---- MODULE Spec2Model ----
(***************************************************************************)
(* Distance-vector routing simulation of dvr.py: one thread per router and *)
(* round, each pushing a copy of its table into its neighbours' queues,    *)
(* spinning until its own queue is full, then relaxing (Bellman-Ford) and  *)
(* clearing the queue; the main thread starts and joins the threads of     *)
(* each of the four rounds.                                                *)
(***************************************************************************)
EXTENDS Integers, Sequences, FiniteSets, TLC

\* math.inf: the default cost of a missing table entry
Inf == 1000000

\* '[no path]': the default next hop of a missing table entry
NoPath == "[no path]"

\* 'None': the next hop of a router's own entry
NoneHop == "None"

\* appended_at's default (None): the entry was never changed
Never == -1

\* range(1, 5): the rounds the main thread runs
R == 4

\* largest edge cost of the weighted line topologies
MaxCost == 2

\* every router name an input file of the model uses
Names == {"A", "B", "C", "D"}

----------------------------------------------------------------------------
(* Input files: the router names of line 2 and the edge lines that follow. *)

LineTopo(w1, w2) ==
    [id |-> "line", names |-> <<"A", "B", "C">>,
     edges |-> << <<"A", "B", w1>>, <<"B", "C", w2>> >>]

TriangleTopo ==
    [id |-> "triangle", names |-> <<"A", "B", "C">>,
     edges |-> << <<"A", "B", 1>>, <<"B", "C", 1>>, <<"A", "C", 5>> >>]

SquareTopo ==
    [id |-> "square", names |-> <<"A", "B", "C", "D">>,
     edges |-> << <<"A", "B", 1>>, <<"A", "C", 1>>,
                  <<"B", "D", 1>>, <<"C", "D", 1>> >>]

TailTopo ==
    [id |-> "tail", names |-> <<"A", "B", "C", "D">>,
     edges |-> << <<"A", "B", 1>>, <<"B", "C", 1>>,
                  <<"A", "C", 5>>, <<"C", "D", 1>> >>]

ChainTopo ==
    [id |-> "chain", names |-> <<"A", "B", "C", "D">>,
     edges |-> << <<"A", "B", 1>>, <<"B", "C", 1>>, <<"C", "D", 1>> >>]

SplitTopo ==
    [id |-> "split", names |-> <<"A", "B", "C">>,
     edges |-> << <<"A", "B", 2>> >>]

Topologies ==
    {LineTopo(w1, w2) : w1 \in 1..MaxCost, w2 \in 1..MaxCost}
        \cup {TriangleTopo, SquareTopo, TailTopo, ChainTopo, SplitTopo}

\* the input files of the runs checked under fair scheduling
FairTopologies == Topologies \ {SquareTopo, TailTopo}

\* an input file with an edge from B to itself
SelfLoopTopo ==
    [id |-> "selfloop", names |-> <<"A", "B", "C">>,
     edges |-> << <<"A", "B", 1>>, <<"B", "B", 1>> >>]

\* an input file with an edge of cost 0
ZeroCostTopo ==
    [id |-> "zerocost", names |-> <<"A", "B", "C">>,
     edges |-> << <<"A", "B", 0>>, <<"B", "C", 1>> >>]

\* the input files a validating loader would reject
ConfigTopologies == {SelfLoopTopo, ZeroCostTopo}

----------------------------------------------------------------------------
(* Router.__init__ and input_parser *)

SeqRange(s) == {s[i] : i \in 1..Len(s)}

\* the value a missing key of the table resolves to
DefaultEntry == [cost |-> Inf, hop |-> NoPath]

\* InitTable without line 34's own entry
InitTableNoSelf(name, rs) == [d \in rs |-> DefaultEntry]

\* Router.__init__: the table of a new router over the routers rs
InitTable(name, rs) ==
    [d \in rs |-> IF d = name THEN [cost |-> 0, hop |-> NoneHop] ELSE DefaultEntry]

\* the routers dict after the loop over routerNames
NewRouters(names) ==
    [neighbours |-> [n \in SeqRange(names) |-> <<>>],
     table |-> [n \in SeqRange(names) |-> InitTable(n, SeqRange(names))],
     error |-> FALSE]

\* ParseEdge without the lines for the destination's side
ParseEdgeOneWay(st, e) ==
    IF st.error \/ e[1] \notin DOMAIN st.table \/ e[2] \notin DOMAIN st.table
          \/ e[1] = e[2]
    THEN [st EXCEPT !.error = TRUE]
    ELSE [neighbours |-> [st.neighbours EXCEPT ![e[1]] = Append(@, e[2])],
          table |-> [st.table EXCEPT ![e[1]][e[2]] = [cost |-> e[3], hop |-> e[2]]],
          error |-> FALSE]

\* ParseEdge that stores the router itself as the next hop
ParseEdgeHopSelf(st, e) ==
    IF st.error \/ e[1] \notin DOMAIN st.table \/ e[2] \notin DOMAIN st.table
          \/ e[1] = e[2]
    THEN [st EXCEPT !.error = TRUE]
    ELSE [neighbours |-> [st.neighbours EXCEPT ![e[1]] = Append(@, e[2]),
                                              ![e[2]] = Append(@, e[1])],
          table |-> [st.table EXCEPT ![e[1]][e[2]] = [cost |-> e[3], hop |-> e[1]],
                                     ![e[2]][e[1]] = [cost |-> e[3], hop |-> e[2]]],
          error |-> FALSE]

\* one edge line: both directions; any exception becomes the SyntaxError
ParseEdge(st, e) ==
    LET src == e[1]
        dest == e[2]
        cost == e[3]
        rs == DOMAIN st.table
    IN IF st.error \/ src \notin rs \/ dest \notin rs \/ src = dest
       THEN [st EXCEPT !.error = TRUE]
       ELSE [neighbours |-> [st.neighbours EXCEPT ![src] = Append(@, dest),
                                                 ![dest] = Append(@, src)],
             table |-> [st.table EXCEPT ![src][dest] = [cost |-> cost, hop |-> dest],
                                        ![dest][src] = [cost |-> cost, hop |-> src]],
             error |-> FALSE]

RECURSIVE ParseEdges(_, _, _)
ParseEdges(st, edges, i) ==
    IF i > Len(edges) THEN st
    ELSE ParseEdges(ParseEdge(st, edges[i]), edges, i + 1)

input_parser(t) == ParseEdges(NewRouters(t.names), t.edges, 1)

----------------------------------------------------------------------------
(* The relaxation of threaded() *)

\* math.inf + x = math.inf
Add(a, b) == IF a = Inf \/ b = Inf THEN Inf ELSE a + b

\* Candidate reading the cost to the sender from table_copy
CandidateWorking(msg, own, tc, d) == Add(msg.table[d].cost, tc[msg.name].cost)

\* Candidate without the cost to the sender
CandidateNoLink(msg, own, tc, d) == msg.table[d].cost

\* val = table[eachRouter][0] + router.table[name][0]
Candidate(msg, own, tc, d) == Add(msg.table[d].cost, own[msg.name].cost)

\* Improves with the comparison turned round
ImprovesFlipped(val, cur) == val > cur

\* Improves with <= for <
ImprovesOrEqual(val, cur) == val <= cur

\* if val < table_copy[eachRouter][0]
Improves(val, cur) == val < cur

\* table_copy[eachRouter][1] = table_copy[name][1]
\* HopFor reading the next hop from the sender's vector instead
HopOfVector(msg, tc) == msg.table[msg.name].hop

HopFor(msg, tc) == tc[msg.name].hop

\* the inner loop: for eachRouter in routers
RECURSIVE RelaxRouters(_, _, _, _, _)
RelaxRouters(tc, own, msg, rs, i) ==
    IF i > Len(rs) THEN tc
    ELSE LET d == rs[i]
             val == Candidate(msg, own, tc, d)
             tc2 == IF Improves(val, tc[d].cost)
                    THEN [tc EXCEPT ![d] = [cost |-> val, hop |-> HopFor(msg, tc)]]
                    ELSE tc
         IN RelaxRouters(tc2, own, msg, rs, i + 1)

\* the outer loop: for table, name in router.queue
RECURSIVE RelaxQueue(_, _, _, _, _)
RelaxQueue(tc, own, q, rs, j) ==
    IF j > Len(q) THEN tc
    ELSE RelaxQueue(RelaxRouters(tc, own, q[j], rs, 1), own, q, rs, j + 1)

\* Relaxed whose loop misses the first vector of the queue
RelaxedSkipFirst(own, q, rs) == RelaxQueue(own, own, q, rs, 2)

\* table_copy after both loops, starting from deepcopy(router.table)
Relaxed(own, q, rs) == RelaxQueue(own, own, q, rs, 1)

----------------------------------------------------------------------------
VARIABLES
    topo,         \* the input file that was parsed
    routers,      \* the keys of the routers dict, in insertion order
    neighbours,   \* Router.neighbours
    table,        \* Router.table
    queue,        \* Router.queue
    queue_lock,   \* Router.queue_lock: TRUE while held
    iterations,   \* Router.iterations
    appended_at,  \* Router.appended_at
    table_copy,   \* threaded's local table_copy
    pc,           \* where each router's thread of the round is
    sidx,         \* add_to_queue's position in the neighbour list
    mainpc,       \* where the main thread is
    midx,         \* the main thread's position in its start/join loop
    itr,          \* the main thread's loop variable
    prevTable     \* history: every table when the round's threads were created

vars == <<topo, routers, neighbours, table, queue, queue_lock, iterations,
          appended_at, table_copy, pc, sidx, mainpc, midx, itr, prevTable>>

RouterSet == SeqRange(routers)

\* deepcopy(routers[router_name].table)
Snapshot(n) == table[n]

\* MsgTable of a message that holds the sender's table itself, not a copy
MsgTableLive(m) == table[m.name]

\* the table a queued message carries
MsgTable(m) == m.table

\* the queue as threaded() iterates it
Inbox(n) == [j \in 1..Len(queue[n]) |-> [table |-> MsgTable(queue[n][j]),
                                         name |-> queue[n][j].name]]

\* AfterSend that leaves the loop one neighbour early
AfterSendShort(n, k) == IF k >= Len(neighbours[n]) THEN "wait" ELSE "send"

\* where a thread goes once add_to_queue has handled k-1 neighbours
AfterSend(n, k) == IF k > Len(neighbours[n]) THEN "wait" ELSE "send"

\* the state after input_parser has read the input file t
InitWith(t) ==
    /\ topo = t
    /\ LET st == input_parser(topo)
       IN /\ routers = topo.names
          /\ neighbours = st.neighbours
          /\ table = st.table
          /\ table_copy = st.table
          /\ prevTable = st.table
          /\ mainpc = IF st.error THEN "error" ELSE "start"
    /\ queue = [n \in SeqRange(topo.names) |-> <<>>]
    /\ queue_lock = [n \in SeqRange(topo.names) |-> FALSE]
    /\ iterations = [n \in SeqRange(topo.names) |-> 0]
    /\ appended_at = [n \in SeqRange(topo.names) |->
                         [d \in SeqRange(topo.names) |-> Never]]
    /\ pc = [n \in SeqRange(topo.names) |-> "idle"]
    /\ sidx = [n \in SeqRange(topo.names) |-> 1]
    /\ midx = 1
    /\ itr = 1

Init == \E t \in Topologies : InitWith(t)

----------------------------------------------------------------------------
(* The main thread *)

\* Joined that does not wait for the thread
JoinedAtOnce(n) == TRUE

\* thread.join(): returns once the thread of router n has ended
Joined(n) == pc[n] = "done"

\* thread.start() for the next router of the dict
Start ==
    /\ mainpc = "start"
    /\ LET n == routers[midx]
       IN /\ pc' = [pc EXCEPT ![n] = AfterSend(n, 1)]
          /\ sidx' = [sidx EXCEPT ![n] = 1]
    /\ IF midx < Len(routers)
       THEN midx' = midx + 1 /\ mainpc' = mainpc
       ELSE midx' = 1 /\ mainpc' = "join"
    /\ UNCHANGED <<topo, routers, neighbours, table, queue, queue_lock,
                   iterations, appended_at, table_copy, itr, prevTable>>

\* thread.join() of a thread that is not the last of the list
Join ==
    /\ mainpc = "join"
    /\ midx < Len(routers)
    /\ Joined(routers[midx])
    /\ midx' = midx + 1
    /\ UNCHANGED <<topo, routers, neighbours, table, queue, queue_lock,
                   iterations, appended_at, table_copy, pc, sidx, mainpc, itr,
                   prevTable>>

\* the last join of a round, the printing, and the next pass of the loop
NextRound ==
    /\ mainpc = "join"
    /\ midx = Len(routers)
    /\ Joined(routers[midx])
    /\ itr < R
    /\ itr' = itr + 1
    /\ midx' = 1
    /\ mainpc' = "start"
    /\ pc' = [n \in RouterSet |-> "idle"]
    /\ prevTable' = table
    /\ UNCHANGED <<topo, routers, neighbours, table, queue, queue_lock,
                   iterations, appended_at, table_copy, sidx>>

\* the last join of the last round: the program ends
Finish ==
    /\ mainpc = "join"
    /\ midx = Len(routers)
    /\ Joined(routers[midx])
    /\ itr = R
    /\ mainpc' = "done"
    /\ UNCHANGED <<topo, routers, neighbours, table, queue, queue_lock,
                   iterations, appended_at, table_copy, pc, sidx, midx, itr,
                   prevTable>>

Main == Start \/ Join \/ NextRound \/ Finish

----------------------------------------------------------------------------
(* The thread of router n: threaded(n) *)

\* add_to_queue: with routers[nhbr].queue_lock
Acquire(n) ==
    /\ pc[n] = "send"
    /\ LET nhbr == neighbours[n][sidx[n]]
       IN /\ ~queue_lock[nhbr]
          /\ queue_lock' = [queue_lock EXCEPT ![nhbr] = TRUE]
    /\ pc' = [pc EXCEPT ![n] = "locked"]
    /\ UNCHANGED <<topo, routers, neighbours, table, queue, iterations,
                   appended_at, table_copy, sidx, mainpc, midx, itr, prevTable>>

\* add_to_queue: the append under the lock, and the lock's release
Send(n) ==
    /\ pc[n] = "locked"
    /\ LET nhbr == neighbours[n][sidx[n]]
       IN /\ queue' = [queue EXCEPT ![nhbr] =
                          Append(@, [table |-> Snapshot(n), name |-> n])]
          /\ queue_lock' = [queue_lock EXCEPT ![nhbr] = FALSE]
    /\ sidx' = [sidx EXCEPT ![n] = @ + 1]
    /\ pc' = [pc EXCEPT ![n] = AfterSend(n, sidx[n] + 1)]
    /\ UNCHANGED <<topo, routers, neighbours, table, iterations, appended_at,
                   table_copy, mainpc, midx, itr, prevTable>>

\* QueueFull with <= for ==
QueueAtMost(n) == Len(queue[n]) <= Len(neighbours[n])

\* the condition that ends the spinning
QueueFull(n) == Len(queue[n]) = Len(neighbours[n])

\* while True: if len(router.queue) == len(router.neighbours): break
Wait(n) ==
    /\ pc[n] = "wait"
    /\ QueueFull(n)
    /\ pc' = [pc EXCEPT ![n] = "relax"]
    /\ UNCHANGED <<topo, routers, neighbours, table, queue, queue_lock,
                   iterations, appended_at, table_copy, sidx, mainpc, midx, itr,
                   prevTable>>

\* router.iterations += 1, the deepcopy and the two relaxation loops
Relax(n) ==
    /\ pc[n] = "relax"
    /\ iterations' = [iterations EXCEPT ![n] = @ + 1]
    /\ table_copy' = [table_copy EXCEPT ![n] = Relaxed(table[n], Inbox(n), routers)]
    /\ pc' = [pc EXCEPT ![n] = "update"]
    /\ UNCHANGED <<topo, routers, neighbours, table, queue, queue_lock,
                   appended_at, sidx, mainpc, midx, itr, prevTable>>

\* Update that stamps every entry, changed or not
UpdateMarkAll(n) ==
    /\ pc[n] = "update"
    /\ table' = [table EXCEPT ![n] = table_copy[n]]
    /\ appended_at' = [appended_at EXCEPT ![n] =
                          [d \in RouterSet |-> iterations[n]]]
    /\ pc' = [pc EXCEPT ![n] = "clear"]
    /\ UNCHANGED <<topo, routers, neighbours, queue, queue_lock, iterations,
                   table_copy, sidx, mainpc, midx, itr, prevTable>>

\* the loop over table_copy.items()
Update(n) ==
    /\ pc[n] = "update"
    /\ table' = [table EXCEPT ![n] =
                    [d \in RouterSet |-> IF table[n][d] /= table_copy[n][d]
                                         THEN table_copy[n][d] ELSE table[n][d]]]
    /\ appended_at' = [appended_at EXCEPT ![n] =
                          [d \in RouterSet |-> IF table[n][d] /= table_copy[n][d]
                                               THEN iterations[n]
                                               ELSE appended_at[n][d]]]
    /\ pc' = [pc EXCEPT ![n] = "clear"]
    /\ UNCHANGED <<topo, routers, neighbours, queue, queue_lock, iterations,
                   table_copy, sidx, mainpc, midx, itr, prevTable>>

\* router.queue.clear(), the sleep and the thread's end
Clear(n) ==
    /\ pc[n] = "clear"
    /\ queue' = [queue EXCEPT ![n] = <<>>]
    /\ pc' = [pc EXCEPT ![n] = "done"]
    /\ UNCHANGED <<topo, routers, neighbours, table, queue_lock, iterations,
                   appended_at, table_copy, sidx, mainpc, midx, itr, prevTable>>

threaded(n) ==
    /\ n \in RouterSet
    /\ \/ Acquire(n)
       \/ Send(n)
       \/ Wait(n)
       \/ Relax(n)
       \/ Update(n)
       \/ Clear(n)

Next == Main \/ \E n \in RouterSet : threaded(n)

Spec == Init /\ [][Next]_vars

\* the scheduler lets every runnable thread run: the main thread and each
\* router's thread keep taking steps while they can
FairSpec ==
    /\ \E t \in FairTopologies : InitWith(t)
    /\ [][Next]_vars
    /\ WF_vars(Main) /\ \A n \in Names : WF_vars(threaded(n))

\* the program run on the input files of ConfigTopologies
CfgSpec == (\E t \in ConfigTopologies : InitWith(t)) /\ [][Next]_vars

----------------------------------------------------------------------------
(* Rounds as the main thread sees them *)

\* every thread of round r has been joined and no thread of round r+1 exists
AtRoundEnd(r) ==
    \/ mainpc = "start" /\ midx = 1 /\ itr = r + 1
    \/ mainpc = "done" /\ r = R

IsLine == topo = LineTopo(1, 1)

Entry(c, h) == [cost |-> c, hop |-> h]

\* the bijections of 1..k
Perms(k) == {f \in [1..k -> 1..k] : \A i, j \in 1..k : f[i] = f[j] => i = j}

\* the queue q processed in the order f
Permuted(q, f) == [j \in 1..Len(q) |-> q[f[j]]]

\* the table router n computes when its queue is processed in the order f
RelaxedIn(n, f) == Relaxed(table[n], Permuted(Inbox(n), f), routers)

----------------------------------------------------------------------------
(* C1: round-batch equivalence *)

\* C1 as stated: when a router starts its relaxation, every processing order
\* of the queued vectors gives the same table, costs and next hops.
C1_OrderInvariantTable ==
    \A n \in RouterSet :
        pc[n] = "relax" =>
            \A f \in Perms(Len(queue[n])) :
                RelaxedIn(n, f) = Relaxed(table[n], Inbox(n), routers)

\* C1 amended: when a router starts its relaxation, every processing order of
\* the queued vectors gives the same cost for every destination.
C1_OrderInvariantCost ==
    \A n \in RouterSet :
        pc[n] = "relax" =>
            LET asQueued == Relaxed(table[n], Inbox(n), routers)
            IN \A f \in Perms(Len(queue[n])) :
                   LET inOrder == RelaxedIn(n, f)
                   IN \A d \in RouterSet : inOrder[d].cost = asQueued[d].cost

\* a router about to relax two or more vectors whose order decides a next hop
C1_Witness ==
    \E n \in RouterSet :
        /\ pc[n] = "relax"
        /\ Len(queue[n]) >= 2
        /\ Relaxed(table[n], Inbox(n), routers) /= table[n]
        /\ \E f \in Perms(Len(queue[n])) : \E d \in RouterSet :
              RelaxedIn(n, f)[d].hop /= Relaxed(table[n], Inbox(n), routers)[d].hop

----------------------------------------------------------------------------
(* C2, C3: the line A-B-C with both costs 1 *)

\* C2 as stated: after round 1, A has no path to C.
C2_LineRound1NoPath ==
    IsLine /\ AtRoundEnd(1) => table["A"]["C"] = DefaultEntry

\* C2 amended: after round 1, A reaches C at cost 2 via B.
C2_LineRound1ViaB ==
    IsLine /\ AtRoundEnd(1) => table["A"]["C"] = Entry(2, "B")

\* round 1 of the line has been joined
C2_Witness == IsLine /\ AtRoundEnd(1) /\ iterations["A"] = 1

\* C3: after round 2, A reaches C and C reaches A at cost 2 via B.
C3_LineRound2 ==
    IsLine /\ AtRoundEnd(2) =>
        table["A"]["C"] = Entry(2, "B") /\ table["C"]["A"] = Entry(2, "B")

\* round 2 of the line has been joined
C3_Witness == IsLine /\ AtRoundEnd(2) /\ iterations["C"] = 2

----------------------------------------------------------------------------
(* C4: the triangle A-B=1, B-C=1, A-C=5 *)

\* C4: after each of the rounds 2..R, A reaches C at cost 2 via B.
C4_TriangleViaB ==
    topo = TriangleTopo /\ (\E r \in 2..R : AtRoundEnd(r)) =>
        table["A"]["C"] = Entry(2, "B") /\ table["A"]["C"] /= Entry(5, "C")

\* the last round of the triangle has been joined, A's queue having held
\* the vectors of B and C in both orders is covered by the other rounds
C4_Witness ==
    /\ topo = TriangleTopo
    /\ AtRoundEnd(R)
    /\ prevTable["A"]["C"] = Entry(2, "B")

----------------------------------------------------------------------------
(* C5: self-distance *)

\* C5: every router's own entry is (0, None) in every state, in the table
\* and in the working copy of the relaxation.
C5_SelfDistance ==
    \A n \in RouterSet :
        table[n][n] = Entry(0, NoneHop) /\ table_copy[n][n] = Entry(0, NoneHop)

\* a router has stored a relaxation that changed its table
C5_Witness ==
    \E n \in RouterSet :
        pc[n] = "clear" /\ table[n] /= prevTable[n] /\ table[n][n] = Entry(0, NoneHop)

----------------------------------------------------------------------------
(* C6: monotonic improvement *)

\* C6: no step raises the cost of any entry of any table.
C6_Monotonic ==
    [][\A n \in RouterSet : \A d \in RouterSet :
           table'[n][d].cost <= table[n][d].cost]_vars

\* a cost has gone down in a round after the first
C6_Witness ==
    \E n \in RouterSet : \E d \in RouterSet :
        itr >= 2 /\ table[n][d].cost < prevTable[n][d].cost

----------------------------------------------------------------------------
(* C7: the queue of a round *)

\* the positions of n in m's neighbour list that m's thread has served
SentTo(m, n) ==
    IF pc[m] = "idle" THEN {}
    ELSE {k \in 1..Len(neighbours[m]) : k < sidx[m] /\ neighbours[m][k] = n}

\* the positions of queue[n] that hold a vector of m
FromIn(m, n) == {j \in 1..Len(queue[n]) : queue[n][j].name = m}

\* the threads that hold n's queue lock
Holders(n) ==
    {m \in RouterSet : pc[m] = "locked" /\ neighbours[m][sidx[m]] = n}

\* C7: queues are empty when a round starts; a router that has left the wait
\* and not yet cleared holds exactly one vector of each neighbour and nothing
\* else; until it clears, its queue holds exactly the vectors sent to it in
\* the round (none lost); after the clear nothing arrives; one thread at a
\* time holds a queue's lock.
C7_InboxContract ==
    /\ (mainpc = "start" /\ midx = 1) => \A n \in RouterSet : queue[n] = <<>>
    /\ \A n \in RouterSet :
          /\ pc[n] \in {"relax", "update", "clear"} =>
                /\ Len(queue[n]) = Len(neighbours[n])
                /\ \A m \in RouterSet :
                      Cardinality(FromIn(m, n))
                          = (IF m \in SeqRange(neighbours[n]) THEN 1 ELSE 0)
          /\ pc[n] /= "done" =>
                \A m \in RouterSet :
                    Cardinality(FromIn(m, n)) = Cardinality(SentTo(m, n))
          /\ pc[n] = "done" => queue[n] = <<>>
          /\ Cardinality(Holders(n)) = (IF queue_lock[n] THEN 1 ELSE 0)

\* a router with two neighbours leaves the wait while another thread is
\* still sending
C7_Witness ==
    \E n \in RouterSet : \E m \in RouterSet :
        /\ pc[n] = "relax"
        /\ Len(queue[n]) >= 2
        /\ pc[m] \in {"send", "locked"}

----------------------------------------------------------------------------
(* C8: snapshot isolation *)

\* C8: every queued vector is its sender's table as it stood when the
\* round's threads were created.
C8_SnapshotIsolation ==
    \A n \in RouterSet : \A j \in 1..Len(queue[n]) :
        MsgTable(queue[n][j]) = prevTable[queue[n][j].name]

\* a vector is still queued after its sender has changed its own table
C8_Witness ==
    \E n \in RouterSet : \E j \in 1..Len(queue[n]) :
        /\ table[queue[n][j].name] /= prevTable[queue[n][j].name]
        /\ pc[n] \in {"wait", "relax"}

----------------------------------------------------------------------------
(* C9: the barrier between rounds *)

\* what a thread is at before it has relaxed in its round
BeforeRelax == {"idle", "send", "locked", "wait", "relax"}

\* C9: the round counters differ by at most one, and while any thread is
\* sending in round itr every router has finished round itr-1: its counter
\* is itr-1 or itr, and a router that has not relaxed in round itr holds
\* the table round itr-1 ended with and no thread of it is updating.
C9_RoundBarrier ==
    /\ \A n \in RouterSet : \A m \in RouterSet :
          iterations[n] - iterations[m] \in -1..1
    /\ \A n \in RouterSet :
          pc[n] \in {"send", "locked"} =>
              \A m \in RouterSet :
                  /\ iterations[m] \in {itr - 1, itr}
                  /\ iterations[m] = itr - 1 =>
                        pc[m] \in BeforeRelax /\ table[m] = prevTable[m]
                  /\ iterations[m] = itr => pc[m] \notin BeforeRelax

\* in a round after the first, one thread is still sending while another
\* has already relaxed
C9_Witness ==
    \E n \in RouterSet : \E m \in RouterSet :
        /\ itr >= 2
        /\ pc[n] = "send"
        /\ iterations[n] = itr - 1
        /\ iterations[m] = itr

----------------------------------------------------------------------------
(* C10: termination *)

\* the program has ended with every round done by every router
AllDone ==
    /\ mainpc = "done"
    /\ \A n \in RouterSet :
          iterations[n] = R /\ pc[n] = "done" /\ queue[n] = <<>>

\* C10: under fair scheduling the main thread ends after round R with every
\* router having relaxed R times (each relaxation follows the return of that
\* round's wait) and every queue empty, and once it has ended no table,
\* round counter or queue changes.
C10_Termination ==
    /\ <>[]AllDone
    /\ [][mainpc = "done" => UNCHANGED <<table, iterations, queue>>]_vars

\* the main thread has joined the last thread of round R
C10_Witness == AllDone /\ itr = R

----------------------------------------------------------------------------
(* C11: configuration errors *)

\* the input file t has a self-loop edge or an edge of cost <= 0
InvalidTopo(t) ==
    \E i \in 1..Len(t.edges) : t.edges[i][1] = t.edges[i][2] \/ t.edges[i][3] <= 0

\* C11: an input with a self-loop or a non-positive edge cost ends in the
\* error outcome before any round: no thread runs and no round is counted.
C11_ConfigError ==
    InvalidTopo(topo) =>
        /\ mainpc = "error"
        /\ \A n \in RouterSet : pc[n] = "idle" /\ iterations[n] = 0

----------------------------------------------------------------------------
(* C12: symmetry of initialization *)

\* input_parser has returned and the main thread has started no thread yet
AfterInit == mainpc = "start" /\ itr = 1 /\ midx = 1

\* the input file has an edge line joining n and d
IsEdge(n, d) ==
    \E i \in 1..Len(topo.edges) :
        {topo.edges[i][1], topo.edges[i][2]} = {n, d} /\ n /= d

\* C12: right after initialization every edge (a, b, c) of the input gives
\* a.table[b] = (c, b) and b.table[a] = (c, a) and makes a and b neighbours
\* of each other; every other destination but the router itself is
\* (inf, no path).
C12_InitSymmetry ==
    AfterInit =>
        /\ \A i \in 1..Len(topo.edges) :
              LET a == topo.edges[i][1]
                  b == topo.edges[i][2]
                  c == topo.edges[i][3]
              IN /\ table[a][b] = Entry(c, b)
                 /\ table[b][a] = Entry(c, a)
                 /\ b \in SeqRange(neighbours[a])
                 /\ a \in SeqRange(neighbours[b])
        /\ \A n \in RouterSet : \A d \in RouterSet :
              (d /= n /\ ~IsEdge(n, d)) =>
                  table[n][d] = DefaultEntry /\ d \notin SeqRange(neighbours[n])

\* the chain has been parsed: it has three edges and the pair A, D without one
C12_Witness ==
    /\ AfterInit
    /\ topo = ChainTopo
    /\ table["C"]["D"] = Entry(1, "D")
    /\ table["A"]["D"] = DefaultEntry

----------------------------------------------------------------------------
(* C13: idempotence at a fixed point *)

\* router n has relaxed in this round and its table came out as it went in
RoundLeftUnchanged(n) ==
    pc[n] \in {"update", "clear"} /\ table_copy[n] = prevTable[n]

\* C13: when a round leaves a router's table unchanged, relaxing that table
\* again with the same vectors, in any order, gives the same table again.
C13_Idempotent ==
    \A n \in RouterSet :
        RoundLeftUnchanged(n) =>
            \A f \in Perms(Len(queue[n])) : RelaxedIn(n, f) = table[n]

\* a router with two or more vectors whose table changed in an earlier round
\* and not in this one
C13_Witness ==
    \E n \in RouterSet :
        /\ RoundLeftUnchanged(n)
        /\ pc[n] = "clear"
        /\ Len(queue[n]) >= 2
        /\ \E d \in RouterSet : appended_at[n][d] \in 1..(itr - 1)

----------------------------------------------------------------------------
(* C14: the relaxation rule *)

\* the candidate of the j-th vector of q for destination d, taken with the
\* cost to its sender that the table own holds
CandOf(own, q, j, d) == Add(q[j].table[d].cost, own[q[j].name].cost)

\* the least of own's cost for d and the candidates of the first k vectors
BestUpTo(own, q, k, d) ==
    LET S == {own[d].cost} \cup {CandOf(own, q, j, d) : j \in 1..k}
    IN CHOOSE x \in S : \A y \in S : x <= y

\* the first of the first k vectors whose candidate for d is the least
FirstBest(own, q, k, d) ==
    CHOOSE j \in 1..k :
        /\ CandOf(own, q, j, d) = BestUpTo(own, q, k, d)
        /\ \A i \in 1..(j - 1) : CandOf(own, q, i, d) > BestUpTo(own, q, k, d)

\* the next hop for d once the first k vectors are processed: the old one
\* unless a candidate was strictly less, else the next hop toward the sender
\* of the first least candidate as it stood when that vector was processed
RECURSIVE HopAfter(_, _, _, _)
HopAfter(own, q, k, d) ==
    IF BestUpTo(own, q, k, d) >= own[d].cost THEN own[d].hop
    ELSE LET j == FirstBest(own, q, k, d)
         IN HopAfter(own, q, j - 1, q[j].name)

\* the entry for d that the rule gives after the first k vectors
RuleEntry(own, q, k, d) ==
    [cost |-> BestUpTo(own, q, k, d), hop |-> HopAfter(own, q, k, d)]

\* C14: after each vector of the queue the working table holds, for every
\* destination, the least candidate seen so far if it is strictly less than
\* the pre-round cost (candidates use the pre-round cost to the sender) with
\* the working next hop toward the first sender that gave it, and the old
\* entry otherwise; table_copy is the result for the whole queue.
C14_RelaxRule ==
    \A n \in RouterSet :
        pc[n] = "update" =>
            /\ \A k \in 0..Len(queue[n]) : \A d \in RouterSet :
                  Relaxed(table[n], SubSeq(Inbox(n), 1, k), routers)[d]
                      = RuleEntry(table[n], Inbox(n), k, d)
            /\ \A d \in RouterSet :
                  table_copy[n][d] = RuleEntry(table[n], Inbox(n), Len(queue[n]), d)

\* a relaxation with two equal least candidates for a destination it improves
C14_Witness ==
    \E n \in RouterSet : \E d \in RouterSet :
        /\ pc[n] = "update"
        /\ Len(queue[n]) >= 2
        /\ table_copy[n][d].cost < table[n][d].cost
        /\ CandOf(table[n], Inbox(n), 1, d) = table_copy[n][d].cost
        /\ CandOf(table[n], Inbox(n), 2, d) = table_copy[n][d].cost
        /\ table_copy[n][d].hop = table[n][queue[n][1].name].hop

----------------------------------------------------------------------------
(* C15: round bookkeeping *)

\* every thread of round itr has ended and the main thread has not gone on
RoundComplete == mainpc = "join" /\ \A n \in RouterSet : pc[n] = "done"

\* C15: a step raises a round counter by at most one and changes
\* appended_at[d] only together with the entry of d, to the round's number;
\* when the threads of round r have ended every counter is r, every queue
\* is empty, and appended_at[d] is r exactly for the entries that differ
\* from the start of the round; after the join of round r every counter is r.
C15_Bookkeeping ==
    /\ [][\A n \in RouterSet :
             /\ iterations'[n] \in {iterations[n], iterations[n] + 1}
             /\ \A d \in RouterSet :
                   appended_at'[n][d] /= appended_at[n][d] =>
                       /\ table'[n][d] /= table[n][d]
                       /\ appended_at'[n][d] = itr]_vars
    /\ [](RoundComplete =>
             \A n \in RouterSet :
                 /\ iterations[n] = itr
                 /\ queue[n] = <<>>
                 /\ \A d \in RouterSet :
                       (appended_at[n][d] = itr) <=> (table[n][d] /= prevTable[n][d]))
    /\ [](\A r \in 1..R :
             AtRoundEnd(r) =>
                 \A n \in RouterSet : iterations[n] = r /\ queue[n] = <<>>)

\* a round after the first has ended in which a router changed one entry
\* and kept the stamp of an entry it had changed in an earlier round
C15_Witness ==
    /\ RoundComplete
    /\ \E n \in RouterSet : \E d \in RouterSet : \E e \in RouterSet :
          /\ appended_at[n][d] = itr
          /\ table[n][d] /= prevTable[n][d]
          /\ appended_at[n][e] \in 1..(itr - 1)
          /\ iterations[n] = itr

----------------------------------------------------------------------------
(* C16: the next hop toward a direct neighbour *)

\* the cost of the input's edge line joining n and m
LinkCost(n, m) ==
    LET i == CHOOSE i \in 1..Len(topo.edges) :
                 {topo.edges[i][1], topo.edges[i][2]} = {n, m}
    IN topo.edges[i][3]

\* C16 as stated: in every state the next hop a router holds for a direct
\* neighbour is that neighbour.
C16_NeighbourHop ==
    \A n \in RouterSet : \A m \in SeqRange(neighbours[n]) :
        table[n][m].hop = m

\* C16 amended: in every state the next hop a router holds for a direct
\* neighbour is that neighbour as long as the entry still has the cost of
\* the direct link (so right after initialization).
C16_DirectEntryHop ==
    \A n \in RouterSet : \A m \in SeqRange(neighbours[n]) :
        table[n][m].cost = LinkCost(n, m) => table[n][m].hop = m

\* the triangle: A reaches its neighbour C via B, and B still directly
C16_Witness ==
    /\ topo = TriangleTopo
    /\ table["A"]["C"] = Entry(2, "B")
    /\ table["A"]["B"] = Entry(1, "B")
    /\ "C" \in SeqRange(neighbours["A"])

----------------------------------------------------------------------------
(* C17: the costs do not depend on the schedule *)

\* the routers the input file joins to n by an edge line
Adjacent(n) == {m \in RouterSet : IsEdge(n, m)}

\* the least element of a non-empty set of costs
Least(S) == CHOOSE x \in S : \A y \in S : x <= y

\* the cost of n for d after r rounds of the sequential synchronous run that
\* starts from the tables c0: in each round every router takes the least of
\* its cost and, per neighbour, the neighbour's cost of the round before
\* plus its own cost of the round before to that neighbour
RECURSIVE SyncCost(_, _, _, _)
SyncCost(c0, r, n, d) ==
    IF r = 0 THEN c0[n][d].cost
    ELSE Least({SyncCost(c0, r - 1, n, d)}
                   \cup {Add(SyncCost(c0, r - 1, m, d), SyncCost(c0, r - 1, n, m)) :
                            m \in Adjacent(n)})

\* C17: after each round r = 0..R, whatever the interleaving that led there,
\* every cost of every table is the cost of the synchronous run after r rounds.
C17_ScheduleIndependentCost ==
    \A r \in 0..R :
        AtRoundEnd(r) =>
            LET c0 == input_parser(topo).table
            IN \A n \in RouterSet : \A d \in RouterSet :
                   table[n][d].cost = SyncCost(c0, r, n, d)

\* the square after round 1 in a run where C's vector reached A before B's:
\* the next hop shows the arrival order, the cost does not
C17_Witness ==
    /\ topo = SquareTopo
    /\ AtRoundEnd(1)
    /\ table["A"]["D"] = Entry(2, "C")
    /\ SyncCost(input_parser(topo).table, 1, "A", "D") = 2

----------------------------------------------------------------------------
(* C18: no underestimation *)

\* the routers the input file t joins to n by an edge line
AdjacentIn(t, n) ==
    {m \in SeqRange(t.names) \ {n} :
        \E i \in 1..Len(t.edges) : {t.edges[i][1], t.edges[i][2]} = {n, m}}

\* the cost of t's edge line joining n and m
LinkCostIn(t, n, m) ==
    LET i == CHOOSE i \in 1..Len(t.edges) : {t.edges[i][1], t.edges[i][2]} = {n, m}
    IN t.edges[i][3]

\* the least cost of a path from n to d of at most k edges of the input t
RECURSIVE PathCost(_, _, _, _)
PathCost(t, n, d, k) ==
    IF k = 0 THEN (IF n = d THEN 0 ELSE Inf)
    ELSE Least({PathCost(t, n, d, k - 1)}
                   \cup {Add(LinkCostIn(t, n, m), PathCost(t, m, d, k - 1)) :
                            m \in AdjacentIn(t, n)})

\* for every input of Spec, the path costs of every pair and every number
\* of edges up to the number of routers
PathCosts ==
    {<<t, {<<n, d, k, PathCost(t, n, d, k)>> :
              n \in SeqRange(t.names), d \in SeqRange(t.names),
              k \in 0..Len(t.names)}>> : t \in Topologies}

\* the path costs of the input that was parsed
PathCostsHere == (CHOOSE x \in PathCosts : x[1] = topo)[2]

\* the cost that the path costs P hold for n, d and at most k edges
PathCostOf(P, n, d, k) ==
    (CHOOSE x \in P : x[1] = n /\ x[2] = d /\ x[3] = k)[4]

\* the least cost of a path from n to d of at most k edges
PathCostHere(n, d, k) == PathCostOf(PathCostsHere, n, d, k)

\* the least cost of any path from n to d (Inf if there is none)
Dist(n, d) == PathCostHere(n, d, Len(routers) - 1)

\* C18: in every state no cost of any table is below the true distance, and
\* a destination the router cannot reach has the default entry.
C18_NoUnderestimate ==
    LET P == PathCostsHere
    IN \A n \in RouterSet : \A d \in RouterSet :
           LET dist == PathCostOf(P, n, d, Len(routers) - 1)
           IN /\ table[n][d].cost >= dist
              /\ dist = Inf => table[n][d] = DefaultEntry

\* the tail after A's first relaxation: A holds D at 6, above the distance 3,
\* and never below it
C18_Witness ==
    /\ topo = TailTopo
    /\ pc["A"] = "clear"
    /\ table["A"]["D"].cost = 6
    /\ Dist("A", "D") = 3

----------------------------------------------------------------------------
(* C19: the propagation bound *)

\* C19: after each round r = 0..R every cost is at most the least cost of a
\* path of at most r+1 edges (paths longer than the number of routers add
\* nothing), and equals the true distance wherever such a path attains it.
C19_PropagationBound ==
    \A r \in 0..R :
        AtRoundEnd(r) =>
            LET P == PathCostsHere
                k == IF r + 1 > Len(routers) THEN Len(routers) ELSE r + 1
            IN \A n \in RouterSet : \A d \in RouterSet :
                   /\ table[n][d].cost <= PathCostOf(P, n, d, k)
                   /\ PathCostOf(P, n, d, k) = PathCostOf(P, n, d, Len(routers) - 1)
                         => table[n][d].cost = PathCostOf(P, n, d, Len(routers) - 1)

\* the chain after round 1: A has learnt the two-edge path to C and not yet
\* the three-edge path to D
C19_Witness ==
    /\ topo = ChainTopo
    /\ AtRoundEnd(1)
    /\ table["A"]["C"].cost = 2
    /\ table["A"]["D"].cost = Inf
    /\ PathCostHere("A", "D", 2) = Inf
    /\ Dist("A", "D") = 3

----------------------------------------------------------------------------
(* C20: next-hop well-formedness *)

\* C20: in every state, for every router n and destination d other than n,
\* a finite cost comes with a next hop that is a direct neighbour of n, an
\* infinite cost comes with the NO_PATH marker, and the NONE marker is the
\* next hop of no entry but n's own.
C20_HopWellFormed ==
    \A n \in RouterSet : \A d \in RouterSet \ {n} :
        /\ table[n][d].cost < Inf => table[n][d].hop \in SeqRange(neighbours[n])
        /\ table[n][d].cost = Inf => table[n][d].hop = NoPath
        /\ table[n][d].hop /= NoneHop

\* the chain once A has learnt D, which is no neighbour of A, through its
\* neighbour B
C20_Witness ==
    /\ topo = ChainTopo
    /\ "D" \notin SeqRange(neighbours["A"])
    /\ table["A"]["D"] = Entry(3, "B")
    /\ table["A"]["A"].hop = NoneHop

====
